---- MODULE Spec2Model ----
(***************************************************************************)
(* The single-threaded actor runtime of doing-more-actors (src/src/lib.rs) *)
(* and its example client (src/src/bin/main.rs).                           *)
(*                                                                         *)
(* Program state: the registry `actors`, the mailboxes `queues`, the       *)
(* delayed-delivery heap `posted`, the tick time `millis`, the loop        *)
(* context's `now`, and the channel `rx`.  `pc` is the position of the     *)
(* thread: "setup" is the embedding program before run(); "tick" is the    *)
(* top of the loop of action_loop; "drain" is handle_actions;              *)
(* "posts_entry" and "posts_loop" are handle_posts; "actors" is            *)
(* handle_actors; "check" is the registry test that ends a tick; "done"    *)
(* is the loop left by `break`; "panic" is the thread unwinding out of the *)
(* loop.                                                                   *)
(*                                                                         *)
(* u32 is scaled to 0..MaxU32 (TLC's integers are 32-bit signed).          *)
(* `millis += sys.millis` (lib.rs:135) overflows when the sum exceeds      *)
(* MaxU32: a build with overflow checks panics, a build without them       *)
(* wraps; both outcomes are modelled.                                      *)
(*                                                                         *)
(* BinaryHeap<Post> keeps its heap property with the comparison operators  *)
(* `<=` and `>=` of its element type, which are PartialOrd's: for Post     *)
(* they come from partial_cmp (lib.rs:74-78), the NATURAL order of the     *)
(* deadline.  The reversed Ord::cmp (lib.rs:80-84) is never consulted by   *)
(* push, peek or pop.  The root of the heap is therefore an entry with the *)
(* GREATEST deadline.  Entries with equal deadlines come out in an order   *)
(* the heap's layout decides: a nondeterministic choice here.              *)
(*                                                                         *)
(* The variables after `todo` are history variables: they record what the  *)
(* program did and are never read by it.                                   *)
(***************************************************************************)
EXTENDS Integers, Sequences, FiniteSets, TLC

\* ------------------------------------------------------------------ bounds

\* u32::MAX, scaled to 12 bits.
MaxU32 == 4095
\* The clock of Spec returns one of 0..ClockSpan or MaxU32.
ClockSpan == 1
\* Actions submitted through a Context in one run.
MaxActions == 3
\* Largest delay an actor or the embedding program passes to post().
MaxDelay == 1
\* Most milliseconds the clock of SpecMain advances between two samples.
MaxStep == 1

Tags == {"a", "b"}
Delays == 0..MaxDelay
Modulus == MaxU32 + 1
ClockSamples == (0..ClockSpan) \cup {MaxU32}

VARIABLES pc, millis, now, rx, actors, queues, posted, todo,
          submitted, ev, due, unboundAtDrain, orphans, everBound, mboxActs,
          popped, tickPops, timerActs

prog == <<pc, millis, now, rx, actors, queues, posted, todo>>
hist == <<submitted, ev, due, unboundAtDrain, orphans, everBound, mboxActs,
          popped, tickPops, timerActs>>
vars == <<pc, millis, now, rx, actors, queues, posted, todo,
          submitted, ev, due, unboundAtDrain, orphans, everBound, mboxActs,
          popped, tickPops, timerActs>>

\* ---------------------------------------------------------------- values

NoTag == "-"
NoMsg == [id |-> 0, to |-> NoTag, at |-> -1]

\* A message: `id` tells messages apart, `to` is the tag its Send or Post
\* named, `at` is now() of the Context that submitted it (-1: submitted by
\* the embedding program before run()).
Msg(i, t, at) == [id |-> i, to |-> t, at |-> at]

\* enum Action { Bind(T, A), Send(T, M), Post(T, M, u32), Stop(T) }
NoActor == "-"
Bind(t, a) == [op |-> "Bind", tag |-> t, actor |-> a, msg |-> NoMsg, millis |-> 0]
Send(t, m) == [op |-> "Send", tag |-> t, actor |-> NoActor, msg |-> m, millis |-> 0]
PostAction(t, m, d) == [op |-> "Post", tag |-> t, actor |-> NoActor, msg |-> m, millis |-> d]
Stop(t) == [op |-> "Stop", tag |-> t, actor |-> NoActor, msg |-> NoMsg, millis |-> 0]

\* The states of an actor of Spec: as bound, and after an act().
Fresh == "fresh"
Used == "used"

\* struct Post(u32, T, M)
Post(deadline, t, m) == [deadline |-> deadline, tag |-> t, msg |-> m]

\* The actions one Context call can submit, its message numbered i.
ActionsAt(i, at) ==
    {Bind(t, Fresh) : t \in Tags} \cup {Stop(t) : t \in Tags}
    \cup {Send(t, Msg(i, t, at)) : t \in Tags}
    \cup {PostAction(t, Msg(i, t, at), d) : t \in Tags, d \in Delays}

Event(kind, src, t, m, out) ==
    [kind |-> kind, src |-> src, tag |-> t, msg |-> m, now |-> now, out |-> out]
Step(kind) == Event(kind, "-", NoTag, NoMsg, <<>>)

ZeroActs == [t \in Tags |-> 0]

Init ==
    /\ pc = "setup"
    /\ millis = 0
    /\ now = 0
    /\ rx = <<>>
    /\ actors = <<>>
    /\ queues = <<>>
    /\ posted = {}
    /\ todo = {}
    /\ submitted = 0
    /\ ev = [kind |-> "new", src |-> "-", tag |-> NoTag, msg |-> NoMsg,
             now |-> 0, out |-> <<>>]
    /\ due = <<>>
    /\ unboundAtDrain = {}
    /\ orphans = {}
    /\ everBound = {}
    /\ mboxActs = ZeroActs
    /\ popped = {}
    /\ tickPops = ZeroActs
    /\ timerActs = 0

\* ------------------------------------------------- the library's operations

\* Context::{stop, send, bind, post}: each call is one tx.send on the channel,
\* which keeps the order of the calls.
CtxSubmit(inbox, out) == inbox \o out

\* Faulty variant: the poll gives up although actions are buffered
InboxEmptyOrNot == TRUE

\* sys.rx.recv_timeout(Duration::from_millis(0)) is Err: nothing is buffered
InboxEmpty == rx = <<>>

\* Faulty variant: an existing entry is kept
InsertIfAbsent(reg, t, a) ==
    [k \in DOMAIN reg \cup {t} |-> IF k \in DOMAIN reg THEN reg[k] ELSE a]

\* sys.actors.insert(tag, actor)
Insert(reg, t, a) == [k \in DOMAIN reg \cup {t} |-> IF k = t THEN a ELSE reg[k]]

\* Faulty variant: the whole registry is cleared
RemoveAll(reg, t) == [k \in {} |-> NoActor]

\* Faulty variant: the entry stays
RemoveNothing(reg, t) == reg

\* sys.actors.remove(&tag)
Remove(reg, t) == [k \in DOMAIN reg \ {t} |-> reg[k]]

\* Faulty variant: the message goes to the front of the mailbox
PushFront(qs, t, m) ==
    [k \in DOMAIN qs \cup {t} |->
        IF k = t THEN (IF t \in DOMAIN qs THEN <<m>> \o qs[t] ELSE <<m>>)
        ELSE qs[k]]

\* Faulty variant: the message goes to the mailbox of another tag when there is one
PushBackOther(qs, t, m) ==
    LET k == IF DOMAIN qs \ {t} = {} THEN t ELSE CHOOSE x \in DOMAIN qs \ {t} : TRUE IN
    [x \in DOMAIN qs \cup {k} |->
        IF x = k THEN (IF k \in DOMAIN qs THEN Append(qs[k], m) ELSE <<m>>)
        ELSE qs[x]]

\* sys.queues.entry(tag).or_default().push_back(msg)
PushBack(qs, t, m) ==
    [k \in DOMAIN qs \cup {t} |->
        IF k = t THEN (IF t \in DOMAIN qs THEN Append(qs[t], m) ELSE <<m>>)
        ELSE qs[k]]

\* Faulty variant: the front is read and left in place
FrontKept(qs, t) == qs

\* queue.pop_front() on the mailbox of t
PopFront(qs, t) == [qs EXCEPT ![t] = Tail(@)]

\* millis += sys.millis, in u32
Overflows(d, t) == d + t > MaxU32
Deadline(d, t) == (d + t) % Modulus

\* impl PartialOrd for Post: self.0.partial_cmp(&other.0); `x <= y` is
\* partial_cmp(x, y) being Less or Equal.
PostLe(x, y) == x.deadline <= y.deadline

\* BinaryHeap::peek / pop: an entry no other entry exceeds under `<=`.
IsRoot(e) == e \in posted /\ \A o \in posted : PostLe(o, e)

\* sys.posted.peek().map(|Post(deadline, _, _)| deadline).cloned()
\*     .unwrap_or(u32::MAX)
PeekDeadline ==
    IF posted = {} THEN MaxU32 ELSE (CHOOSE e \in posted : IsRoot(e)).deadline

\* Faulty variant: any registered actor will do
LiveAny(t) == DOMAIN actors # {}

\* sys.actors.get_mut(&tag) is Some
Live(t) == t \in DOMAIN actors

\* Faulty variant: the loop also waits for the mailboxes to empty
RegistryAndMailboxesEmpty ==
    DOMAIN actors = {} /\ \A t \in DOMAIN queues : queues[t] = <<>>

\* sys.actors.is_empty()
RegistryEmpty == DOMAIN actors = {}

\* Faulty variant: the mailboxes of tags without an actor are skipped
LiveNonEmptyMailboxes ==
    {t \in DOMAIN queues : queues[t] # <<>> /\ t \in DOMAIN actors}

\* .filter(|(_, queue)| !queue.is_empty())
NonEmptyMailboxes == {t \in DOMAIN queues : queues[t] # <<>>}

\* Faulty variant: a mailbox is visited again while it holds messages
RestOfPassRevisit(t) == IF Len(queues[t]) > 1 THEN todo ELSE todo \ {t}

\* iter_mut() yields every mailbox once: after t, the rest of the pass.
RestOfPass(t) == todo \ {t}

\* ------------------------------------------------------ embedding program

\* The embedding program submits an action before run().
SetupSubmit ==
    /\ pc = "setup"
    /\ submitted < MaxActions
    /\ \E a \in ActionsAt(submitted + 1, -1) :
          /\ rx' = CtxSubmit(rx, <<a>>)
          /\ ev' = Event("submit", "-", a.tag, a.msg, <<a>>)
    /\ submitted' = submitted + 1
    /\ UNCHANGED <<pc, millis, now, actors, queues, posted, todo>>
    /\ UNCHANGED <<due, unboundAtDrain, orphans, everBound, mboxActs>>
    /\ UNCHANGED <<popped, tickPops, timerActs>>

\* System::run: action_loop is entered.
Run ==
    /\ pc = "setup"
    /\ pc' = "tick"
    /\ ev' = Step("run")
    /\ UNCHANGED <<millis, now, rx, actors, queues, posted, todo>>
    /\ UNCHANGED <<submitted, due, unboundAtDrain, orphans, everBound, mboxActs>>
    /\ UNCHANGED <<popped, tickPops, timerActs>>

\* --------------------------------------------------------------- the loop

\* sys.millis = clock(); ctx.now = sys.millis.  The clock is the wall clock
\* in milliseconds cut to u32: any value may follow any value (here: any of
\* ClockSamples).
Tick ==
    /\ pc = "tick"
    /\ \E t \in ClockSamples : millis' = t /\ now' = t
    /\ pc' = "drain"
    /\ ev' = [Step("tick") EXCEPT !.now = millis']
    /\ mboxActs' = ZeroActs
    /\ tickPops' = ZeroActs
    /\ timerActs' = 0
    /\ UNCHANGED <<rx, actors, queues, posted, todo>>
    /\ UNCHANGED <<submitted, due, unboundAtDrain, orphans, everBound, popped>>

\* handle_actions, Action::Bind
DrainBind ==
    /\ pc = "drain" /\ rx # <<>> /\ Head(rx).op = "Bind"
    /\ LET t == Head(rx).tag IN
          /\ actors' = Insert(actors, t, Head(rx).actor)
          /\ everBound' = everBound \cup {t}
          /\ orphans' = {m \in orphans : m.to # t}
          /\ ev' = Event("bind", IF Live(t) THEN "rebind" ELSE "-", t, NoMsg, <<>>)
    /\ rx' = Tail(rx)
    /\ UNCHANGED <<pc, millis, now, queues, posted, todo>>
    /\ UNCHANGED <<submitted, due, unboundAtDrain, mboxActs>>
    /\ UNCHANGED <<popped, tickPops, timerActs>>

\* handle_actions, Action::Send
DrainSend ==
    /\ pc = "drain" /\ rx # <<>> /\ Head(rx).op = "Send"
    /\ LET t == Head(rx).tag
           m == Head(rx).msg IN
          /\ queues' = PushBack(queues, t, m)
          /\ unboundAtDrain' = IF Live(t) THEN unboundAtDrain ELSE unboundAtDrain \cup {m}
          /\ orphans' = IF Live(t) THEN orphans ELSE orphans \cup {m}
          /\ ev' = Event("send", "-", t, m, <<>>)
    /\ rx' = Tail(rx)
    /\ UNCHANGED <<pc, millis, now, actors, posted, todo>>
    /\ UNCHANGED <<submitted, due, everBound, mboxActs>>
    /\ UNCHANGED <<popped, tickPops, timerActs>>

\* handle_actions, Action::Post, the sum in range or wrapped
DrainPost ==
    /\ pc = "drain" /\ rx # <<>> /\ Head(rx).op = "Post"
    /\ LET t == Head(rx).tag
           m == Head(rx).msg
           d == Head(rx).millis IN
          /\ posted' = posted \cup {Post(Deadline(d, millis), t, m)}
          /\ due' = (m.id :> (millis + d)) @@ due
          /\ unboundAtDrain' = IF Live(t) THEN unboundAtDrain ELSE unboundAtDrain \cup {m}
          /\ orphans' = IF Live(t) THEN orphans ELSE orphans \cup {m}
          /\ ev' = Event("post", "-", t, m, <<>>)
    /\ rx' = Tail(rx)
    /\ UNCHANGED <<pc, millis, now, actors, queues, todo>>
    /\ UNCHANGED <<submitted, everBound, mboxActs>>
    /\ UNCHANGED <<popped, tickPops, timerActs>>

\* handle_actions, Action::Post, the sum overflowing in a build that checks
DrainPostPanic ==
    /\ pc = "drain" /\ rx # <<>> /\ Head(rx).op = "Post"
    /\ Overflows(Head(rx).millis, millis)
    /\ pc' = "panic"
    /\ ev' = Event("panic", "-", Head(rx).tag, Head(rx).msg, <<>>)
    /\ rx' = Tail(rx)
    /\ UNCHANGED <<millis, now, actors, queues, posted, todo>>
    /\ UNCHANGED <<submitted, due, unboundAtDrain, orphans, everBound, mboxActs>>
    /\ UNCHANGED <<popped, tickPops, timerActs>>

\* handle_actions, Action::Stop
DrainStop ==
    /\ pc = "drain" /\ rx # <<>> /\ Head(rx).op = "Stop"
    /\ actors' = Remove(actors, Head(rx).tag)
    /\ ev' = Event("stop", "-", Head(rx).tag, NoMsg, <<>>)
    /\ rx' = Tail(rx)
    /\ UNCHANGED <<pc, millis, now, queues, posted, todo>>
    /\ UNCHANGED <<submitted, due, unboundAtDrain, orphans, everBound, mboxActs>>
    /\ UNCHANGED <<popped, tickPops, timerActs>>

\* handle_actions: recv_timeout finds the channel empty
DrainEnd ==
    /\ pc = "drain" /\ InboxEmpty
    /\ pc' = "posts_entry"
    /\ ev' = Step("drained")
    /\ UNCHANGED <<millis, now, rx, actors, queues, posted, todo>>
    /\ UNCHANGED <<submitted, due, unboundAtDrain, orphans, everBound, mboxActs>>
    /\ UNCHANGED <<popped, tickPops, timerActs>>

\* handle_posts: if sys.posted.is_empty() { return; }
PostsEntry ==
    /\ pc = "posts_entry"
    /\ IF posted = {}
       THEN pc' = "actors" /\ todo' = NonEmptyMailboxes
       ELSE pc' = "posts_loop" /\ todo' = todo
    /\ ev' = Step("posts")
    /\ UNCHANGED <<millis, now, rx, actors, queues, posted>>
    /\ UNCHANGED <<submitted, due, unboundAtDrain, orphans, everBound, mboxActs>>
    /\ UNCHANGED <<popped, tickPops, timerActs>>

\* Faulty variant: a Bind asked for inside act() is applied to the registry
\* at once instead of going through the inbox
GenericActDirect(t, m, src) ==
    \E out \in {<<>>} \cup (IF submitted < MaxActions
                            THEN {<<a>> : a \in ActionsAt(submitted + 1, now)}
                            ELSE {}) :
        /\ IF out # <<>> /\ out[1].op = "Bind"
           THEN /\ actors' = Insert([actors EXCEPT ![t] = Used], out[1].tag, out[1].actor)
                /\ rx' = rx
           ELSE /\ actors' = [actors EXCEPT ![t] = Used]
                /\ rx' = CtxSubmit(rx, out)
        /\ submitted' = submitted + Len(out)
        /\ ev' = Event("act", src, t, m, out)

\* An actor of the embedding program: act() changes its own state and may
\* submit an action through the Context.
GenericAct(t, m, src) ==
    \E out \in {<<>>} \cup (IF submitted < MaxActions
                            THEN {<<a>> : a \in ActionsAt(submitted + 1, now)}
                            ELSE {}) :
        /\ actors' = [actors EXCEPT ![t] = Used]
        /\ rx' = CtxSubmit(rx, out)
        /\ submitted' = submitted + Len(out)
        /\ ev' = Event("act", src, t, m, out)

\* The example's actor, bin/main.rs.

\* ctx.post(tag.clone(), msg, 100)
PostDelay == 100
\* State::Counter(10, time)
Rounds == 10

MainTag == "tag"
\* Protocol::Empty, the only message of the example
MainMsg == Msg(1, MainTag, -1)

\* enum State { Empty, Counter(usize, Millis), Done }
StateEmpty == [st |-> "Empty", n |-> 0, time |-> 0]
StateCounter(n, time) == [st |-> "Counter", n |-> n, time |-> time]
StateDone == [st |-> "Done", n |-> 0, time |-> 0]

\* What act() of State submits and the state it leaves, by the state it
\* finds.  With a clock that never goes back, now() - *time cannot underflow.
MainOut(s, t, m) ==
    CASE s.st = "Empty" -> <<Send(t, m)>>
      [] s.st = "Counter" /\ s.n = Rounds -> <<Send(t, m)>>
      [] s.st = "Counter" /\ s.n # Rounds -> <<PostAction(t, m, PostDelay)>>
      [] s.st = "Done" -> <<Stop(t)>>

MainState(s) ==
    CASE s.st = "Empty" -> StateCounter(0, now)
      [] s.st = "Counter" /\ s.n = Rounds -> StateDone
      [] s.st = "Counter" /\ s.n # Rounds -> StateCounter(s.n + 1, now)
      [] s.st = "Done" -> s

\* impl Actor for State: act
MainAct(t, m, src) ==
    /\ actors' = [actors EXCEPT ![t] = MainState(actors[t])]
    /\ rx' = CtxSubmit(rx, MainOut(actors[t], t, m))
    /\ submitted' = submitted + Len(MainOut(actors[t], t, m))
    /\ ev' = Event("act", src, t, m, MainOut(actors[t], t, m))

\* actor.act(&tag, ctx, msg): the Actor impl of the registered actor, State
\* for the tag of the example.
Act(t, m, src) ==
    IF t = MainTag THEN MainAct(t, m, src) ELSE GenericAct(t, m, src)

\* A popped entry whose tag has no actor: nothing runs.
Discard(t, m, src) ==
    /\ ev' = Event("discard", src, t, m, <<>>)
    /\ UNCHANGED <<actors, rx, submitted>>

\* handle_posts: the loop's condition holds and pop() returns an entry
PostsFire ==
    /\ pc = "posts_loop"
    /\ PeekDeadline <= millis
    /\ \E e \in posted :
          /\ IsRoot(e)
          /\ posted' = posted \ {e}
          /\ popped' = popped \cup {e.msg}
          /\ IF Live(e.tag)
             THEN Act(e.tag, e.msg, "timer") /\ timerActs' = timerActs + 1
             ELSE Discard(e.tag, e.msg, "timer") /\ timerActs' = timerActs
    /\ UNCHANGED <<pc, millis, now, queues, todo>>
    /\ UNCHANGED <<due, unboundAtDrain, orphans, everBound, mboxActs, tickPops>>

\* handle_posts: the loop's condition holds and pop() returns None
PostsSpin ==
    /\ pc = "posts_loop"
    /\ posted = {}
    /\ PeekDeadline <= millis
    /\ ev' = Step("spin")
    /\ UNCHANGED <<pc, millis, now, rx, actors, queues, posted, todo>>
    /\ UNCHANGED <<submitted, due, unboundAtDrain, orphans, everBound, mboxActs>>
    /\ UNCHANGED <<popped, tickPops, timerActs>>

\* handle_posts: the loop's condition fails
PostsEnd ==
    /\ pc = "posts_loop"
    /\ ~(PeekDeadline <= millis)
    /\ pc' = "actors"
    /\ todo' = NonEmptyMailboxes
    /\ ev' = Step("timers_done")
    /\ UNCHANGED <<millis, now, rx, actors, queues, posted>>
    /\ UNCHANGED <<submitted, due, unboundAtDrain, orphans, everBound, mboxActs>>
    /\ UNCHANGED <<popped, tickPops, timerActs>>

\* handle_actors: the next non-empty mailbox of the pass
ActorsStep ==
    /\ pc = "actors"
    /\ \E t \in todo :
          /\ queues' = PopFront(queues, t)
          /\ todo' = RestOfPass(t)
          /\ popped' = popped \cup {Head(queues[t])}
          /\ tickPops' = [tickPops EXCEPT ![t] = @ + 1]
          /\ IF Live(t)
             THEN /\ Act(t, Head(queues[t]), "mbox")
                  /\ mboxActs' = [mboxActs EXCEPT ![t] = @ + 1]
             ELSE /\ Discard(t, Head(queues[t]), "mbox")
                  /\ mboxActs' = mboxActs
    /\ UNCHANGED <<pc, millis, now, posted>>
    /\ UNCHANGED <<due, unboundAtDrain, orphans, everBound, timerActs>>

\* handle_actors: the pass is over
ActorsEnd ==
    /\ pc = "actors"
    /\ todo = {}
    /\ pc' = "check"
    /\ ev' = Step("pass_done")
    /\ UNCHANGED <<millis, now, rx, actors, queues, posted, todo>>
    /\ UNCHANGED <<submitted, due, unboundAtDrain, orphans, everBound, mboxActs>>
    /\ UNCHANGED <<popped, tickPops, timerActs>>

\* action_loop: if sys.actors.is_empty() { break; }
CheckExit ==
    /\ pc = "check"
    /\ RegistryEmpty
    /\ pc' = "done"
    /\ ev' = Step("exit")
    /\ UNCHANGED <<millis, now, rx, actors, queues, posted, todo>>
    /\ UNCHANGED <<submitted, due, unboundAtDrain, orphans, everBound, mboxActs>>
    /\ UNCHANGED <<popped, tickPops, timerActs>>

\* action_loop: the registry is not empty, the loop goes round
CheckLoop ==
    /\ pc = "check"
    /\ ~RegistryEmpty
    /\ pc' = "tick"
    /\ ev' = Step("loop")
    /\ UNCHANGED <<millis, now, rx, actors, queues, posted, todo>>
    /\ UNCHANGED <<submitted, due, unboundAtDrain, orphans, everBound, mboxActs>>
    /\ UNCHANGED <<popped, tickPops, timerActs>>

Next ==
    \/ SetupSubmit
    \/ Run
    \/ Tick
    \/ DrainBind
    \/ DrainSend
    \/ DrainPost
    \/ DrainPostPanic
    \/ DrainStop
    \/ DrainEnd
    \/ PostsEntry
    \/ PostsFire
    \/ PostsSpin
    \/ PostsEnd
    \/ ActorsStep
    \/ ActorsEnd
    \/ CheckExit
    \/ CheckLoop

Spec == Init /\ [][Next]_vars

\* ---------------------------------------------- the example, bin/main.rs

\* main(): bind, send, and run() entered
MainInit ==
    /\ pc = "tick"
    /\ millis = 0
    /\ now = 0
    /\ rx = CtxSubmit(CtxSubmit(<<>>, <<Bind(MainTag, StateEmpty)>>),
                      <<Send(MainTag, MainMsg)>>)
    /\ actors = <<>>
    /\ queues = <<>>
    /\ posted = {}
    /\ todo = {}
    /\ submitted = 2
    /\ ev = [kind |-> "run", src |-> "-", tag |-> NoTag, msg |-> NoMsg,
             now |-> 0, out |-> <<>>]
    /\ due = <<>>
    /\ unboundAtDrain = {}
    /\ orphans = {}
    /\ everBound = {}
    /\ mboxActs = [t \in {MainTag} |-> 0]
    /\ popped = {}
    /\ tickPops = [t \in {MainTag} |-> 0]
    /\ timerActs = 0

\* sys.millis = clock(); ctx.now = sys.millis, with a clock that does not
\* go back and advances by at most MaxStep between two samples.
MainTick ==
    /\ pc = "tick"
    /\ \E t \in millis..(millis + MaxStep) :
          t <= MaxU32 /\ millis' = t /\ now' = t
    /\ pc' = "drain"
    /\ ev' = [Step("tick") EXCEPT !.now = millis']
    /\ mboxActs' = [t \in {MainTag} |-> 0]
    /\ tickPops' = [t \in {MainTag} |-> 0]
    /\ timerActs' = 0
    /\ UNCHANGED <<rx, actors, queues, posted, todo>>
    /\ UNCHANGED <<submitted, due, unboundAtDrain, orphans, everBound, popped>>

\* A sample later than the one before.
MainTickAdvance == MainTick /\ millis' > millis

MainNext ==
    \/ MainTick
    \/ DrainBind
    \/ DrainSend
    \/ DrainPost
    \/ DrainStop
    \/ DrainEnd
    \/ PostsEntry
    \/ PostsFire
    \/ PostsEnd
    \/ ActorsStep
    \/ ActorsEnd
    \/ CheckExit
    \/ CheckLoop

\* The loop never waits (recv_timeout of zero), and the clock keeps advancing.
SpecMain ==
    /\ MainInit
    /\ [][MainNext]_vars
    /\ WF_vars(MainNext)
    /\ SF_vars(MainTickAdvance)

\* ------------------------------------------------------------- properties

\* The last step was an act() invocation.
Acted == ev.kind = "act"

\* C1: when the timer phase of a tick has ended, no entry whose deadline is
\* <= the tick time remains in the delayed queue.
C1_NoDueEntryAfterTimers ==
    pc = "actors" => \A e \in posted : e.deadline > millis

\* C2: a message delivered from the delayed queue is delivered in a tick
\* whose time is at least (tick time at the drain of its Post) + delay.
C2_NoEarlyDelivery ==
    (Acted /\ ev.src = "timer") => ev.now >= due[ev.msg.id]

\* C3: the loop is left exactly from the end of a tick whose registry is
\* empty: never from anywhere else, and always from there, whatever the
\* mailboxes and the delayed queue hold.
C3_ExitIffEmptyAtTickEnd ==
    [][(pc' = "done") <=> (pc = "check" /\ DOMAIN actors = {})]_vars

\* C3 witness: the loop has exited with entries left in a mailbox and in
\* the delayed queue.
C3_Witness ==
    /\ pc = "done"
    /\ posted # {}
    /\ \E t \in DOMAIN queues : queues[t] # <<>>

\* C4: in a tick, at most one act() per tag takes its message from the
\* tag's mailbox.
C4_OneMailboxActPerTagPerTick ==
    \A t \in DOMAIN mboxActs : mboxActs[t] <= 1

\* C4 witness: a tag was dispatched from its mailbox and the mailbox still
\* holds a message.
C4_Witness ==
    \E t \in DOMAIN queues : mboxActs[t] = 1 /\ queues[t] # <<>>

\* Once the drain phase of a tick is over.
AfterDrain == pc \in {"posts_entry", "posts_loop", "actors", "check"}

\* C5: after the drain phase of a tick, no step binds or stops a tag, adds
\* to a mailbox or to the delayed queue: what an act() submits goes to the
\* inbox, all of it and nothing else, and the inbox is empty again when the
\* next drain phase ends.
C5_EffectsDeferred ==
    /\ [][AfterDrain =>
            /\ DOMAIN actors' = DOMAIN actors
            /\ posted' \subseteq posted
            /\ DOMAIN queues' = DOMAIN queues
            /\ \A t \in DOMAIN queues :
                  \/ queues'[t] = queues[t]
                  \/ queues[t] # <<>> /\ queues'[t] = Tail(queues[t])
            /\ rx' = rx \o ev'.out]_vars
    /\ [](pc = "posts_entry" => rx = <<>>)

\* C5 witness: an act() has submitted an action, which waits in the inbox.
C5_Witness ==
    Acted /\ ev.out # <<>> /\ rx # <<>> /\ AfterDrain

\* C6: an act() that receives a message sent during a tick of time t
\* observes now() >= t.
C6_SendSeenNoEarlier ==
    (Acted /\ ev.src = "mbox" /\ ev.msg.at >= 0) => ev.now >= ev.msg.at

\* The timer loop of handle_posts going round with nothing to pop.
Spinning == pc = "posts_loop" /\ posted = {} /\ PeekDeadline <= millis

\* C7: actions that target never-bound tags cause no act(), leave the
\* registry alone and do not keep the loop from terminating at the end of
\* the first tick in which the registry is empty.
C7_NeverBoundNoOp ==
    /\ Acted => ev.tag \in everBound
    /\ DOMAIN actors \subseteq everBound
    /\ everBound = {} => ~Spinning

\* C8, as claimed: a message whose Send or Post was drained while its tag
\* was not in the registry is never passed to act().
C8_UnboundAtDrainNeverDelivered ==
    Acted => ev.msg \notin unboundAtDrain

\* C8, amended: a message whose Send or Post was drained while its tag was
\* not in the registry is never passed to act(), unless a Bind for that tag
\* was drained after it.
C8_UnboundNeverDeliveredUnlessBound ==
    Acted => ev.msg \notin orphans

\* C8 witness: a message drained for an unbound tag, with no Bind since,
\* has been reached and dropped.
C8_Witness ==
    ev.kind = "discard" /\ ev.msg \in orphans

\* What C9 says of one act() of the example, from the state s it finds to
\* the state s2 it leaves, with `out` submitted.
MainStepAsClaimed(s, s2, src, out) ==
    /\ s.st = "Empty" => s2 = StateCounter(0, now)
    /\ (s.st = "Counter" /\ s.n < Rounds /\ src = "timer") =>
          /\ s2.st = "Counter" /\ s2.n = s.n + 1
          /\ out = <<PostAction(MainTag, MainMsg, PostDelay)>>
    /\ (s.st = "Counter" /\ s.n = Rounds) =>
          /\ s2 = StateDone
          /\ out = <<Send(MainTag, MainMsg)>>
    /\ s.st = "Done" => out = <<Stop(MainTag)>>

C10_RoutedByTag ==
    Acted => (ev.msg.to = ev.tag /\ ev.tag \in DOMAIN actors)

\* C10 witness: with both tags bound, one of them has been dispatched.
C10_Witness ==
    Acted /\ DOMAIN actors = Tags

\* Entries queued for tag t: in its mailbox or in the delayed queue.
QueuedFor(t) ==
    (IF t \in DOMAIN queues THEN {queues[t][i] : i \in 1..Len(queues[t])} ELSE {})
        \cup {e.msg : e \in {x \in posted : x.tag = t}}

\* C11: draining Bind(t, a2) makes a2 the one registry entry of t, whether or
\* not t was bound, leaves every other entry alone, and keeps every mailbox
\* and the delayed queue as they were, so what was queued for t is still
\* there for the new actor; act() only ever runs on a registered tag.
C11_RebindReplaces ==
    /\ [][ev'.kind = "bind" =>
            /\ DOMAIN actors' = DOMAIN actors \cup {ev'.tag}
            /\ actors'[ev'.tag] = Head(rx).actor
            /\ \A k \in DOMAIN actors \ {ev'.tag} : actors'[k] = actors[k]
            /\ queues' = queues
            /\ posted' = posted]_vars
    /\ [][ev'.kind = "act" =>
            /\ ev'.tag \in DOMAIN actors
            /\ ev'.msg \in QueuedFor(ev'.tag)
            /\ actors'[ev'.tag] # Fresh]_vars

\* C11 witness: a Bind of an already bound tag has just been drained, the
\* new state is in the registry and an entry queued for the tag is waiting.
C11_Witness ==
    /\ ev.kind = "bind" /\ ev.src = "rebind"
    /\ actors[ev.tag] = Fresh
    /\ QueuedFor(ev.tag) # {}

\* C12: draining Stop(t) removes the registry entry of t and nothing else:
\* the other entries, every mailbox and the delayed queue are unchanged.
C12_StopFrame ==
    [][ev'.kind = "stop" =>
          /\ DOMAIN actors' = DOMAIN actors \ {ev'.tag}
          /\ \A k \in DOMAIN actors' : actors'[k] = actors[k]
          /\ queues' = queues
          /\ posted' = posted]_vars

\* C12 witness: a Stop has just been drained while another tag stays bound
\* and while something is queued for some tag.
C12_Witness ==
    /\ ev.kind = "stop" /\ ev.tag \in everBound /\ ev.tag \notin DOMAIN actors
    /\ (DOMAIN actors # {} \/ QueuedFor(ev.tag) # {})

\* Everything queued: in a mailbox or in the delayed queue.
Queued == UNION {QueuedFor(t) : t \in DOMAIN queues} \cup {e.msg : e \in posted}

\* A step that takes an entry out of a mailbox or out of the delayed queue.
Removal == ev'.kind \in {"act", "discard"}

\* What holds of every removal: the entry was queued and never removed
\* before, it is queued no more, and an entry whose tag has no actor goes
\* without act(), without any Context call and without leaving the phase.
RemovedAtMostOnce ==
    /\ [][Removal =>
            /\ ev'.msg \in Queued /\ ev'.msg \notin popped
            /\ ev'.msg \notin Queued' /\ ev'.msg \in popped'
            /\ ev'.kind = "discard" <=> ev'.tag \notin DOMAIN actors
            /\ ev'.kind = "discard" =>
                  (actors' = actors /\ rx' = rx /\ pc' = pc /\ mboxActs' = mboxActs
                      /\ timerActs' = timerActs)]_vars
    /\ [](Queued \cap popped = {})

\* C13 as claimed: every removal is as above, and every queued entry is
\* removed exactly once, so none is left when the loop has exited.
C13_RemovedExactlyOnce ==
    /\ RemovedAtMostOnce
    /\ [](pc = "done" => Queued = {})

\* C13, amended: an entry reached while its tag has no actor is removed
\* without act() and without stopping the loop; every queued entry is removed
\* at most once, is passed to act() at most once and is never queued again.
C13_RemovedAtMostOnce ==
    RemovedAtMostOnce

\* C13 witness: an entry whose tag has no actor has just been dropped and the
\* loop goes on while another tag is bound.
C13_Witness ==
    /\ ev.kind = "discard" /\ ev.msg \in popped /\ ev.tag \notin DOMAIN actors
    /\ pc \in {"posts_loop", "actors"} /\ DOMAIN actors # {}

\* The Send actions of the inbox that name tag t.
PendingSends(t) ==
    {rx[k].msg : k \in {i \in 1..Len(rx) : rx[i].op = "Send" /\ rx[i].tag = t}}

\* C14: message ids grow with submission.  The inbox holds its messages in
\* submission order, and the message a mailbox pass takes from the mailbox of
\* t is older than every message still in that mailbox and than every Send
\* to t still in the inbox, and it is the first one taken from that mailbox
\* in this tick: every Send to t submitted before it was popped in a strictly
\* earlier tick, and an actor bound throughout sees them in that order.
C14_MailboxFifo ==
    /\ [][(Removal /\ ev'.src = "mbox") =>
            /\ ev'.msg = Head(queues[ev'.tag])
            /\ \A m \in (QueuedFor(ev'.tag) \ {e.msg : e \in posted})
                          \cup PendingSends(ev'.tag) :
                  m # ev'.msg => m.id > ev'.msg.id
            /\ tickPops[ev'.tag] = 0
            /\ tickPops'[ev'.tag] = 1]_vars
    /\ [](\A i, j \in 1..Len(rx) :
            (i < j /\ rx[i].msg # NoMsg /\ rx[j].msg # NoMsg)
                => rx[i].msg.id < rx[j].msg.id)

\* C14 witness: an actor has just received the older of two messages of its
\* mailbox; the younger one waits for a later tick.
C14_Witness ==
    /\ Acted /\ ev.src = "mbox"
    /\ queues[ev.tag] # <<>>
    /\ tickPops[ev.tag] = 1

\* C15: the entry a drained Post(t, m, d) puts in the delayed queue carries
\* the integer sum of the tick time and d as its deadline, and computing it
\* never aborts the loop.
C15_DeadlineIsSum ==
    /\ pc # "panic"
    /\ \A e \in posted : e.deadline = due[e.msg.id]

\* The mailbox of t, empty when t has none.
Mailbox(qs, t) == IF t \in DOMAIN qs THEN qs[t] ELSE <<>>

\* C16: a step of the mailbox pass takes the front message of one mailbox,
\* whether or not the tag has an actor, and leaves the others alone; outside
\* the pass no mailbox loses anything; and when the pass is over every
\* mailbox has either lost exactly one message in this tick or was empty and
\* is still empty.
C16_OnePopPerMailbox ==
    /\ [][(Removal /\ ev'.src = "mbox") =>
            /\ pc = "actors"
            /\ queues[ev'.tag] = <<ev'.msg>> \o queues'[ev'.tag]
            /\ \A t \in Tags \ {ev'.tag} : Mailbox(queues', t) = Mailbox(queues, t)]_vars
    /\ [][~(Removal /\ ev'.src = "mbox") =>
            \A t \in Tags : Len(Mailbox(queues', t)) >= Len(Mailbox(queues, t))]_vars
    /\ [](pc = "actors" =>
            \A t \in Tags :
               IF t \in todo THEN tickPops[t] = 0 /\ Mailbox(queues, t) # <<>>
               ELSE tickPops[t] = 1 \/ (tickPops[t] = 0 /\ Mailbox(queues, t) = <<>>))
    /\ [](pc \in {"check", "done"} =>
            \A t \in Tags :
               tickPops[t] = 1 \/ (tickPops[t] = 0 /\ Mailbox(queues, t) = <<>>))

\* C16 witness: a pass is over in which every tag's mailbox lost one message
\* and one of the tags has no actor.
C16_Witness ==
    /\ pc = "check"
    /\ \A t \in Tags : tickPops[t] = 1
    /\ Tags \ DOMAIN actors # {}
    /\ DOMAIN actors # {}

\* The deadline the delayed queue held for message m.
DeadlineOf(m) == Deadline(due[m.id], 0)

\* C17: two entries removed one after the other in one timer phase leave in
\* ascending order of deadline.
C17_FiredAscending ==
    [][(/\ ev.kind \in {"act", "discard"} /\ ev.src = "timer"
        /\ Removal /\ ev'.src = "timer")
          => DeadlineOf(ev.msg) <= DeadlineOf(ev'.msg)]_vars

\* The order of the phases: one tick is drain, timers, mailbox pass, check.
PhaseOrder ==
    { <<"setup", "tick">>, <<"tick", "drain">>, <<"drain", "posts_entry">>,
      <<"drain", "panic">>, <<"posts_entry", "posts_loop">>,
      <<"posts_entry", "actors">>, <<"posts_loop", "actors">>,
      <<"actors", "check">>, <<"check", "tick">>, <<"check", "done">> }

\* C18: the phases of a tick follow one another as drain, timer firing,
\* mailbox pass.  act() runs in the timer phase on delayed entries and in the
\* mailbox pass on mailbox entries, never in the drain; a delayed entry is
\* dispatched before any mailbox of the tick has been touched; and the
\* registry, the mailboxes and the delayed queue gain entries in the drain
\* only.
C18_PhaseOrder ==
    /\ [][pc' # pc => <<pc, pc'>> \in PhaseOrder]_vars
    /\ [][Removal =>
            /\ pc' = pc
            /\ ev'.src = "timer" <=> pc = "posts_loop"
            /\ ev'.src = "mbox" <=> pc = "actors"
            /\ ev'.src = "timer" => \A t \in Tags : tickPops[t] = 0 /\ mboxActs[t] = 0]_vars
    /\ [][pc # "drain" =>
            /\ DOMAIN actors' \subseteq DOMAIN actors
            /\ posted' \subseteq posted
            /\ \A t \in Tags : Len(Mailbox(queues', t)) <= Len(Mailbox(queues, t))]_vars

\* C18 witness: a mailbox message is dispatched in a tick whose timer phase
\* has dispatched a delayed entry.
C18_Witness ==
    /\ Acted /\ ev.src = "mbox" /\ pc = "actors"
    /\ timerActs > 0

\* C19: every iteration of the timer loop either ends the phase or removes
\* an entry of the delayed queue, so the phase is over after at most as many
\* removals as the queue held.
C19_TimerLoopProgress ==
    [][pc = "posts_loop" =>
          (pc' = "actors" \/ Cardinality(posted') < Cardinality(posted))]_vars

\* C20: with actions submitted before run() or from inside act() only, the
\* tick in which the loop exits has invoked no act(), neither on a delayed
\* entry nor on a mailbox message, and the inbox is empty when run()
\* returns: every submitted action has been applied by a drain.
C20_InboxEmptyAtExit ==
    pc = "done" =>
        /\ rx = <<>>
        /\ timerActs = 0
        /\ \A t \in DOMAIN mboxActs : mboxActs[t] = 0

\* C20 witness: the loop has exited after a run in which a bound actor was
\* dispatched and all MaxActions actions were submitted.
C20_Witness ==
    /\ pc = "done"
    /\ submitted = MaxActions
    /\ everBound # {}
    /\ popped # {} /\ popped \cap unboundAtDrain = {}

====
